---- MODULE Spec2Model ----
(***************************************************************************)
(* Model of the OpenPrescribing measures tracker (src/streamlit_app.py):   *)
(* the review-horizon calculator, the Plausible lookup with its two        *)
(* memoized layers, and the top-to-bottom script run (listing fetch,       *)
(* per-file normalization loop, months filter, enrichment, rendering).     *)
(***************************************************************************)
EXTENDS Integers, Sequences, FiniteSets, TLC

VARIABLES
    \* ---- review_months exercised on its own
    mToday,        \* datetime.now().date() seen by the call
    mTarget,       \* the review_date argument
    mResult,       \* the value returned, or Unset before the call
    \* ---- the script run
    pc,            \* position of the script
    github_token,  \* st.secrets.get("github_token") is truthy
    plausible_api_key,  \* st.secrets.get("plausible_api_key") is truthy
    plausible_site_id,  \* st.secrets.get("plausible_site_id") is truthy
    listing,       \* outcome of the listing request (line 200-202)
    items,         \* the parsed listing body iterated by the loop
    idx,           \* number of listing entries the loop has consumed
    fetched,       \* per consumed entry: what its per-file request did
    rows,          \* the rows list built by the loop
    df,            \* the DataFrame: built from rows, filtered, enriched
    contains_first,  \* the "prefer contains" checkbox
    debug,         \* the "show debug info" checkbox
    views,         \* views_30 / views_12 being collected, pairwise
    sample_debug,  \* the debug request has been made
    today,         \* the wall-clock date
    slider,        \* the months range applied, or NoRange
    table,         \* the rendered table rows, or NoTable
    messages,      \* st.error / st.info / traceback shown to the user
    fileRequests,  \* per-file requests issued in this run
    \* ---- Plausible layer (shared by the run and by the lookup harness)
    qcache,        \* st.cache_data store of plausible_query
    pvcache,       \* st.cache_data store of plausible_pageviews_contains
    now,           \* seconds on the cache clock
    requests,      \* GETs sent to the Plausible aggregate endpoint
    calls          \* log of the lookup calls made by the harness

vars == << mToday, mTarget, mResult, pc, github_token, plausible_api_key,
           plausible_site_id, listing, items, idx, fetched, rows, df,
           contains_first, debug, views, sample_debug, today, slider, table, messages, fileRequests, qcache, pvcache, now,
           requests, calls >>

monthsVars == << mToday, mTarget, mResult >>
runVars == << pc, github_token, listing, items, idx, fetched, rows, df,
              contains_first, debug, views, sample_debug, today, slider,
              table, messages, fileRequests >>
credVars == << plausible_api_key, plausible_site_id >>
cacheVars == << qcache, pvcache, now, requests >>

-----------------------------------------------------------------------------
(* Calendar dates and dateutil's relativedelta, as review_months uses them *)

\* first calendar year of the modelled dates
Year0 == 2023
\* number of calendar years the modelled dates span
NumYears == 3

Years == Year0 .. (Year0 + NumYears - 1)

\* None / pd.NA
NoDate == [k |-> "none"]
NA == [k |-> "NA"]
Unset == [k |-> "unset"]
\* an integer months value
Known(n) == [k |-> "int", n |-> n]

IsLeap(y) == (y % 4 = 0 /\ y % 100 # 0) \/ y % 400 = 0

\* calendar.monthrange(year, month)[1]
DaysInMonth(y, m) ==
    IF m = 2 THEN (IF IsLeap(y) THEN 29 ELSE 28)
    ELSE IF m \in {4, 6, 9, 11} THEN 30 ELSE 31

MkDate(y, m, d) == [k |-> "date", y |-> y, m |-> m, d |-> d]

DatesOf(ys) ==
    { dt \in { MkDate(y, m, d) : y \in ys, m \in 1..12, d \in 1..31 } :
        dt.d <= DaysInMonth(dt.y, dt.m) }

\* date.__lt__
DateLT(a, b) ==
    \/ a.y < b.y
    \/ a.y = b.y /\ a.m < b.m
    \/ a.y = b.y /\ a.m = b.m /\ a.d < b.d

Abs(n) == IF n < 0 THEN -n ELSE n
Sign(n) == IF n < 0 THEN -1 ELSE 1
Min(a, b) == IF a < b THEN a ELSE b
Max(a, b) == IF a > b THEN a ELSE b

\* relativedelta._set_months: split a month count into years and months,
\* both carrying the sign of the count
SetMonths(months) ==
    IF Abs(months) > 11
    THEN [years  |-> ((months * Sign(months)) \div 12) * Sign(months),
          months |-> ((months * Sign(months)) % 12) * Sign(months)]
    ELSE [years |-> 0, months |-> months]

\* relativedelta.__radd__ on a date: shift year and month, clamp the day
RAdd(rd, dt) ==
    LET y0 == dt.y + rd.years
        m0 == dt.m + rd.months
        y1 == IF rd.months # 0 /\ m0 > 12 THEN y0 + 1
              ELSE IF rd.months # 0 /\ m0 < 1 THEN y0 - 1 ELSE y0
        m1 == IF rd.months # 0 /\ m0 > 12 THEN m0 - 12
              ELSE IF rd.months # 0 /\ m0 < 1 THEN m0 + 12 ELSE m0
    IN  MkDate(y1, m1, Min(DaysInMonth(y1, m1), dt.d))

\* the adjustment loop of relativedelta(dt1, dt2): step the month count
\* towards zero while the shifted dt2 overshoots dt1
RECURSIVE AdjustMonths(_, _, _)
AdjustMonths(dt1, dt2, months) ==
    LET dtm == RAdd(SetMonths(months), dt2)
    IN  IF DateLT(dt1, dt2)
        THEN (IF DateLT(dtm, dt1) THEN AdjustMonths(dt1, dt2, months + 1)
              ELSE months)
        ELSE (IF DateLT(dt1, dtm) THEN AdjustMonths(dt1, dt2, months - 1)
              ELSE months)

\* relativedelta(dt1, dt2): its years and months fields
relativedelta(dt1, dt2) ==
    SetMonths(AdjustMonths(dt1, dt2,
                           (dt1.y - dt2.y) * 12 + (dt1.m - dt2.m)))

\* a next_review value is falsy (None, "", 0, [] ...) or truthy
Falsy(v) == v.k = "none" \/ (v.k = "raw" /\ v.v.t = "list")

review_months_unclamped(review_date, nowDate) ==
    IF Falsy(review_date) THEN NA
    ELSE IF review_date.k # "date" THEN NA
    ELSE LET delta == relativedelta(review_date, nowDate)
         IN  Known(delta.years * 12 + delta.months)

\* review_months: nowDate stands for the datetime.now().date() it reads
review_months(review_date, nowDate) ==
    IF Falsy(review_date) THEN NA
    ELSE IF review_date.k # "date" THEN NA   \* relativedelta raises, caught
    ELSE LET delta == relativedelta(review_date, nowDate)
         IN  Known(Max(delta.years * 12 + delta.months, 0))

-----------------------------------------------------------------------------
(* The Plausible layer: plausible_query and plausible_pageviews_contains,  *)
(* each behind st.cache_data(ttl=3600)                                     *)

\* ttl of both st.cache_data decorators, in seconds
ttl == 3600

None == [k |-> "none"]
Raised == [k |-> "raised"]
NoId == [k |-> "none"]
MkId(i) == [k |-> "id", i |-> i]

Periods == {"30d", "12mo"}

\* the three filters tried: event:page~=/{id}, event:page~=/{id}/ and
\* event:page==/measure/{id}/
Filters == {"contains", "contains_slash", "exact"}

\* what the aggregate endpoint does with one GET: the request fails
\* (exception, timeout, non-success status, unparseable body), or a payload
\* comes back: without results.pageviews.value, with a value, or of a shape
\* on which the chained .get() calls raise
Fail == [k |-> "fail"]
NoData == [k |-> "nodata"]
Malformed == [k |-> "malformed"]
Value(n) == [k |-> "value", n |-> n]

MkParams(mid, period, filter) ==
    [mid |-> mid, period |-> period, filter |-> filter]

LiveNever(e, t) == FALSE

\* a st.cache_data entry is served until ttl seconds after it was stored
Live(e, t) == t - e.at < ttl

Hits(cache, key, t) == { e \in cache : e.key = key /\ Live(e, t) }

Store(cache, key, val, t) ==
    { e \in cache : e.key # key } \cup {[key |-> key, val |-> val, at |-> t]}

\* plausible_query: the cached value, or None without credentials, or one
\* GET whose failure becomes None
plausible_query(qc, t, site_id, api_key, params, answer) ==
    IF Hits(qc, params, t) # {}
    THEN [val |-> (CHOOSE e \in Hits(qc, params, t) : TRUE).val,
          qc |-> qc, issued |-> 0, seen |-> {}]
    ELSE IF ~site_id \/ ~api_key
    THEN [val |-> None, qc |-> Store(qc, params, None, t),
          issued |-> 0, seen |-> {}]
    ELSE LET val == IF answer = Fail THEN None ELSE answer
         IN  [val |-> val, qc |-> Store(qc, params, val, t),
              issued |-> 1, seen |-> {answer}]

\* what lines 126-133 (and 143-149) do with a payload: "next" when the
\* payload is falsy or carries no value, else the int returned, else raise
Decide(payload) ==
    IF payload = None \/ payload = NoData THEN [k |-> "next"]
    ELSE IF payload = Malformed THEN Raised
    ELSE [k |-> "int", n |-> payload.n]

\* the filters in the order lines 116-142 try them
FilterOrder == << "contains", "contains_slash", "exact" >>

\* lines 118-150: one plausible_query per filter in turn, until a payload
\* carries a value; answers maps each filter to what the endpoint would
\* answer; issued and seen accumulate the requests sent and their answers
RECURSIVE TryFilters(_, _, _, _, _, _, _, _, _, _)
TryFilters(fs, qc, issued, seen, t, mid, period, site_id, api_key, answers) ==
    IF fs = << >>
    THEN [val |-> None, qc |-> qc, issued |-> issued, seen |-> seen]
    ELSE LET r == plausible_query(qc, t, site_id, api_key,
                      MkParams(mid, period, Head(fs)), answers[Head(fs)])
         IN  IF Decide(r.val).k # "next"
             THEN [val |-> Decide(r.val), qc |-> r.qc,
                   issued |-> issued + r.issued, seen |-> seen \cup r.seen]
             ELSE TryFilters(Tail(fs), r.qc, issued + r.issued,
                             seen \cup r.seen, t, mid, period, site_id,
                             api_key, answers)

\* the body of plausible_pageviews_contains: the guard of line 112, then
\* the filters
PageviewsBody(qc, t, mid, period, site_id, api_key, answers) ==
    IF mid = NoId \/ ~site_id \/ ~api_key
    THEN [val |-> None, qc |-> qc, issued |-> 0, seen |-> {}]
    ELSE TryFilters(FilterOrder, qc, 0, {}, t, mid, period, site_id, api_key,
                    answers)

PvKey(mid, period) == [mid |-> mid, period |-> period]

\* plausible_pageviews_contains behind its st.cache_data: a live entry is
\* returned as is; otherwise the body runs and its return value is stored
\* (an exception stores nothing)
plausible_pageviews_contains(pvc, qc, t, mid, period, site_id, api_key, answers) ==
    IF Hits(pvc, PvKey(mid, period), t) # {}
    THEN [val |-> (CHOOSE e \in Hits(pvc, PvKey(mid, period), t) : TRUE).val,
          pvc |-> pvc, qc |-> qc, issued |-> 0, seen |-> {}, hit |-> TRUE]
    ELSE LET b == PageviewsBody(qc, t, mid, period, site_id, api_key, answers)
         IN  [val |-> b.val,
              pvc |-> IF b.val = Raised THEN pvc
                      ELSE Store(pvc, PvKey(mid, period), b.val, t),
              qc |-> b.qc, issued |-> b.issued, seen |-> b.seen,
              hit |-> FALSE]

-----------------------------------------------------------------------------
(* Values the variables hold while their part of the program is not run *)

NoRange == [k |-> "none"]
NoTable == [k |-> "none"]
NoListing == [k |-> "none"]

RunIdle ==
    /\ pc = "idle"
    /\ github_token = FALSE
    /\ listing = NoListing
    /\ items = << >>
    /\ idx = 0
    /\ fetched = << >>
    /\ rows = << >>
    /\ df = << >>
    /\ contains_first = TRUE
    /\ debug = FALSE
    /\ views = << >>
    /\ sample_debug = FALSE
    /\ today = MkDate(Year0, 1, 1)
    /\ slider = NoRange
    /\ table = NoTable
    /\ messages = << >>
    /\ fileRequests = 0

CacheIdle ==
    /\ qcache = {}
    /\ pvcache = {}
    /\ now = 0
    /\ requests = 0
    /\ calls = << >>

MonthsIdle ==
    /\ mToday = NoDate
    /\ mTarget = NoDate
    /\ mResult = Unset

-----------------------------------------------------------------------------
(* review_months called on its own *)

\* the days of the month the current date is drawn from
TodayDays == {1, 15, 28, 29, 30, 31}

TodayDates == { dt \in DatesOf({Year0 + 1}) : dt.d \in TodayDays }

InitMonths ==
    /\ mToday \in TodayDates
    /\ mTarget \in DatesOf(Years) \cup {NoDate}
    /\ mResult = Unset
    /\ RunIdle
    /\ CacheIdle
    /\ plausible_api_key = FALSE
    /\ plausible_site_id = FALSE

CallReviewMonths ==
    /\ mResult = Unset
    /\ mResult' = review_months(mTarget, mToday)
    /\ UNCHANGED << mToday, mTarget, runVars, credVars, cacheVars, calls >>

NextMonths == CallReviewMonths

SpecMonths == InitMonths /\ [][NextMonths]_vars

\* calendar month addition stated on the month index year*12 + month
PlusMonths(dt, n) ==
    LET t == dt.y * 12 + (dt.m - 1) + n
        y == t \div 12
        m == (t % 12) + 1
    IN  MkDate(y, m, Min(dt.d, DaysInMonth(y, m)))

DateLE(a, b) == a = b \/ DateLT(a, b)

\* the number of whole calendar months from a to b, for a <= b
WholeMonths(a, b) ==
    CHOOSE n \in 0 .. (12 * (NumYears + 1)) :
        DateLE(PlusMonths(a, n), b) /\ DateLT(b, PlusMonths(a, n + 1))

\* the largest number of months ahead the N-months-ahead case is checked for
MaxAhead == 18

\* C5: review_months returns unknown exactly when the target date is absent;
\* otherwise it returns max(0, m), m the whole calendar months from the
\* current date to the target: never negative, 0 for today and every past
\* date, exactly N for the date N calendar months ahead, and 1 for
\* Jan 31 -> Mar 1.
C5_ReviewMonths ==
    mResult # Unset =>
        /\ (mResult = NA) <=> (mTarget = NoDate)
        /\ mTarget # NoDate =>
             /\ mResult.k = "int"
             /\ mResult.n >= 0
             /\ DateLE(mTarget, mToday) => mResult.n = 0
             /\ DateLT(mToday, mTarget) =>
                    mResult.n = WholeMonths(mToday, mTarget)
             /\ \A n \in 0 .. MaxAhead :
                    mTarget = PlusMonths(mToday, n) => mResult.n = n
             /\ (mToday = MkDate(Year0 + 1, 1, 31)
                   /\ mTarget = MkDate(Year0 + 1, 3, 1)) => mResult.n = 1

\* C5 witness: Jan 31 -> Mar 1 computed as 1 month
C5_Witness ==
    /\ mToday = MkDate(Year0 + 1, 1, 31)
    /\ mTarget = MkDate(Year0 + 1, 3, 1)
    /\ mResult = Known(1)


-----------------------------------------------------------------------------
(* The lookup called repeatedly, as successive script runs call it *)

\* the pageview counts the endpoint answers with
Counts == {0, 3}

Answers == {Fail, NoData, Malformed} \cup { Value(n) : n \in Counts }

\* An answer to a request that is never sent is immaterial: the endpoint's
\* answers are enumerated with Fail in the slots behind a deciding answer.
Deciding(a) == a \notin {Fail, NoData}

Oracles ==
    { o \in [Filters -> Answers] :
        /\ Deciding(o["contains"]) => o["contains_slash"] = Fail
        /\ (Deciding(o["contains"]) \/ Deciding(o["contains_slash"]))
              => o["exact"] = Fail }

HarnessMids == {MkId(1), NoId}
HarnessPeriods == {"30d"}

\* number of lookup calls logged
MaxCalls == 3
\* number of steps the cache clock takes
MaxTicks == 2
\* seconds the cache clock advances by in one step
TickSeconds == ttl \div 2

\* the answers the lookup is to normalize to absent
NonInformative == {Fail, NoData, Value(0)}

InitLookup ==
    /\ plausible_api_key \in BOOLEAN
    /\ plausible_site_id \in BOOLEAN
    /\ CacheIdle
    /\ RunIdle
    /\ MonthsIdle

\* one call of plausible_pageviews_contains(mid, period, site_id, api_key)
CallLookup ==
    /\ Len(calls) < MaxCalls
    /\ \E mid \in HarnessMids, period \in HarnessPeriods,
          answers \in Oracles :
         LET r == plausible_pageviews_contains(pvcache, qcache, now, mid,
                      period, plausible_site_id, plausible_api_key, answers)
         IN  /\ pvcache' = r.pvc
             /\ qcache' = r.qc
             /\ requests' = requests + r.issued
             /\ calls' = Append(calls,
                    [mid |-> mid, period |-> period, val |-> r.val,
                     at |-> now, issued |-> r.issued,
                     blank |-> r.seen # {} /\ r.seen \subseteq NonInformative,
                     hit |-> r.hit])
    /\ UNCHANGED << now, monthsVars, runVars, credVars >>

\* time passes between calls
Advance ==
    /\ now < MaxTicks * TickSeconds
    /\ now' = now + TickSeconds
    /\ UNCHANGED << qcache, pvcache, requests, calls, monthsVars, runVars,
                    credVars >>

NextLookup == CallLookup \/ Advance

SpecLookup == InitLookup /\ [][NextLookup]_vars


\* C7: the lookup never raises; when every answer the endpoint gave during
\* the call is missing, zero or a failure it returns absent, and otherwise
\* it returns a non-negative integer.
C7_LookupNormalizes ==
    \A i \in 1 .. Len(calls) :
        LET c == calls[i]
        IN  /\ c.val # Raised
            /\ (~c.hit /\ c.blank) => c.val = None
            /\ c.val # None => (c.val.k = "int" /\ c.val.n >= 0)

-----------------------------------------------------------------------------
(* The script run: lines 182-399 of streamlit_app.py, top to bottom *)

\* number of entries in a listing
MaxItems == 2

\* the wall-clock date when the run starts, and the next day
StartDate == MkDate(Year0 + 1, 1, 31)
NextDay(dt) ==
    IF dt.d < DaysInMonth(dt.y, dt.m) THEN MkDate(dt.y, dt.m, dt.d + 1)
    ELSE IF dt.m < 12 THEN MkDate(dt.y, dt.m + 1, 1)
    ELSE MkDate(dt.y + 1, 1, 1)

\* ---- JSON values of the next_review field
JAbsent == [t |-> "absent"]
JNum == [t |-> "num"]
JStr(text) == [t |-> "str", text |-> text]
JList(elems) == [t |-> "list", elems |-> elems]

Ymd(y, m, d) == [s |-> "ymd", y |-> y, m |-> m, d |-> d]
OtherText == [s |-> "other"]

\* the strings a definition file carries: two dates, a date that does not
\* exist, and a string that is no date
Texts == { Ymd(Year0 + 1, 3, 31), Ymd(Year0 + 1, 1, 15),
           Ymd(Year0 + 1, 2, 30), OtherText }

Scalars == {JNum} \cup { JStr(x) : x \in Texts }

NextReviewInputs ==
    {JAbsent, JList(<< >>)} \cup Scalars \cup { JList(<< x >>) : x \in Scalars }

\* datetime.strptime(text, "%Y-%m-%d").date(), or NoDate where it raises
Strptime(text) ==
    IF text.s = "ymd" /\ text.m \in 1..12
       /\ text.d \in 1 .. DaysInMonth(text.y, text.m)
    THEN MkDate(text.y, text.m, text.d)
    ELSE NoDate

Raw(v) == [k |-> "raw", v |-> v]

\* lines 233-242: take the first element of a non-empty list, parse a
\* string, leave anything else as it is
NormalizeNextReview(v) ==
    LET v1 == IF v.t = "list" /\ Len(v.elems) > 0 THEN v.elems[1] ELSE v
    IN  IF v1.t = "str" THEN Strptime(v1.text)
        ELSE IF v1.t = "absent" THEN NoDate
        ELSE Raw(v1)

\* ---- listing entries
\* "def": name ends in .json, html_url and download_url present
\* "noid": name ends in .json, no html_url, download_url with an empty stem
\* "other": name does not end in .json
\* "scalar": the entry is no JSON object
EntryKinds == {"def", "noid", "other", "scalar"}

IsJsonName(kind) == kind \in {"def", "noid"}

\* measure_id_from_github_url(html_url) or ...(download_url)
MeasureId(kind, i) == IF kind = "def" THEN MkId(i) ELSE NoId

RECURSIVE SeqsUpTo(_, _)
SeqsUpTo(S, n) ==
    IF n = 0 THEN {<< >>}
    ELSE LET shorter == SeqsUpTo(S, n - 1)
         IN  shorter \cup { Append(q, x) : q \in shorter, x \in S }

Listings == SeqsUpTo(EntryKinds, MaxItems)

\* ---- what the listing request does
ListingFailures == {"exception", "timeout", "status", "unparseable"}

\* ---- what a per-file request does: requests.get raises, or a response
\* comes back with a status and a body that is unparseable, a JSON object
\* (with its next_review field) or another JSON value
Timeout == [k |-> "timeout"]
Resp(status, body, nr) ==
    [k |-> "response", status |-> status, body |-> body, next_review |-> nr]

\* the calendar date a next_review field denotes: that of a YYYY-MM-DD
\* string, or of such a string heading a list; NoDate for any other field
DateDenoted(v) ==
    LET v1 == IF v.t = "list" /\ Len(v.elems) > 0 THEN v.elems[1] ELSE v
    IN  IF v1.t = "str" /\ v1.text.s = "ymd" /\ v1.text.m \in 1..12
           /\ v1.text.d >= 1 /\ v1.text.d <= DaysInMonth(v1.text.y, v1.text.m)
        THEN MkDate(v1.text.y, v1.text.m, v1.text.d)
        ELSE NoDate

\* what the run remembers of a per-file request: the status and the kind of
\* body, and the date its next_review denotes
Outcome(r) ==
    IF r = Timeout THEN r
    ELSE [k |-> "response", status |-> r.status, body |-> r.body,
          denotes |-> DateDenoted(r.next_review)]

Responses ==
    {Timeout}
    \cup { Resp(st, "unparseable", JAbsent) : st \in {"ok", "error"} }
    \cup { Resp("error", "object", JAbsent), Resp("ok", "array", JAbsent) }
    \cup { Resp("ok", "object", nr) : nr \in NextReviewInputs }

NotFetched == [k |-> "skipped"]

InitRun ==
    /\ pc = "start"
    /\ github_token \in BOOLEAN
    /\ plausible_api_key \in BOOLEAN
    /\ plausible_site_id \in BOOLEAN
    /\ listing = NoListing
    /\ items = << >>
    /\ idx = 0
    /\ fetched = << >>
    /\ rows = << >>
    /\ df = << >>
    /\ contains_first = TRUE
    /\ debug = FALSE
    /\ views = << >>
    /\ sample_debug = FALSE
    /\ today = StartDate
    /\ slider = NoRange
    /\ table = NoTable
    /\ messages = << >>
    /\ fileRequests = 0
    /\ CacheIdle
    /\ MonthsIdle

\* lines 189-192
GetGithubToken ==
    /\ pc = "start"
    /\ IF github_token
       THEN pc' = "fetch" /\ UNCHANGED messages
       ELSE pc' = "stopped" /\ messages' = Append(messages, "error:token")
    /\ UNCHANGED << github_token, listing, items, idx, fetched, rows, df,
                    contains_first, debug, views, sample_debug, today,
                    slider, table, fileRequests, credVars, cacheVars, calls,
                    monthsVars >>

\* lines 197-205: the listing request; the body parsed is a list of
\* entries, a JSON object (the loop then iterates its keys) or a scalar
FetchListing ==
    /\ pc = "fetch"
    /\ \/ \E f \in ListingFailures :
            /\ listing' = [k |-> f]
            /\ messages' = Append(messages, "error:github")
            /\ pc' = "stopped"
            /\ UNCHANGED items
       \/ \E l \in Listings :
            /\ listing' = [k |-> "list"]
            /\ items' = l
            /\ pc' = "loop"
            /\ UNCHANGED messages
       \/ \E n \in 0..1 :
            /\ listing' = [k |-> "object"]
            /\ items' = IF n = 0 THEN << >> ELSE << "scalar" >>
            /\ pc' = "loop"
            /\ UNCHANGED messages
       \/ /\ listing' = [k |-> "scalar"]
          /\ pc' = "loop"
          /\ UNCHANGED << items, messages >>
    /\ UNCHANGED << github_token, idx, fetched, rows, df, contains_first,
                    debug, views, sample_debug, today, slider, table,
                    fileRequests, credVars, cacheVars, calls, monthsVars >>

MkRow(i, kind, nr, nowDate) ==
    [i |-> i, measure_id |-> MeasureId(kind, i), next_review |-> nr,
     next_review_months |-> review_months(nr, nowDate)]

\* lines 208-252: one iteration of the loop over items
LoopStep ==
    /\ pc = "loop"
    /\ listing.k # "scalar"
    /\ idx < Len(items)
    /\ LET kind == items[idx + 1]
       IN  IF kind = "scalar"
           THEN \* item.get raises AttributeError
                /\ pc' = "crashed"
                /\ messages' = Append(messages, "traceback:210")
                /\ UNCHANGED << idx, fetched, rows, fileRequests >>
           ELSE IF ~IsJsonName(kind)
           THEN /\ idx' = idx + 1
                /\ fetched' = Append(fetched, NotFetched)
                /\ UNCHANGED << pc, messages, rows, fileRequests >>
           ELSE \E r \in Responses :
                /\ fileRequests' = fileRequests + 1
                /\ fetched' = Append(fetched, Outcome(r))
                /\ IF r = Timeout \/ r.body = "unparseable"
                   THEN /\ idx' = idx + 1
                        /\ UNCHANGED << pc, messages, rows >>
                   ELSE IF r.body = "array"
                   THEN \* file_json.get raises AttributeError
                        /\ pc' = "crashed"
                        /\ messages' = Append(messages, "traceback:226")
                        /\ UNCHANGED << idx, rows >>
                   ELSE /\ idx' = idx + 1
                        /\ rows' = Append(rows,
                              MkRow(idx + 1, kind,
                                    NormalizeNextReview(r.next_review), today))
                        /\ UNCHANGED << pc, messages >>
    /\ UNCHANGED << github_token, listing, items, df, contains_first, debug,
                    views, sample_debug, today, slider, table, credVars,
                    cacheVars, calls, monthsVars >>

\* line 208 on a body that cannot be iterated: TypeError
LoopNotIterable ==
    /\ pc = "loop"
    /\ listing.k = "scalar"
    /\ pc' = "crashed"
    /\ messages' = Append(messages, "traceback:208")
    /\ UNCHANGED << github_token, listing, items, idx, fetched, rows, df,
                    contains_first, debug, views, sample_debug, today,
                    slider, table, fileRequests, credVars, cacheVars, calls,
                    monthsVars >>

\* midnight passes while the loop is waiting on its requests
Midnight ==
    /\ pc = "loop"
    /\ today = StartDate
    /\ today' = NextDay(today)
    /\ UNCHANGED << pc, github_token, listing, items, idx, fetched, rows, df,
                    contains_first, debug, views, sample_debug, slider,
                    table, messages, fileRequests, credVars, cacheVars,
                    calls, monthsVars >>

\* lines 254-258: the loop is over; an empty frame stops the run
BuildFrame ==
    /\ pc = "loop"
    /\ listing.k # "scalar"
    /\ idx = Len(items)
    /\ df' = rows
    /\ IF rows = << >>
       THEN pc' = "stopped" /\ messages' = Append(messages, "info:empty")
       ELSE pc' = "filter" /\ UNCHANGED messages
    /\ UNCHANGED << github_token, listing, items, idx, fetched, rows,
                    contains_first, debug, views, sample_debug, today,
                    slider, table, fileRequests, credVars, cacheVars, calls,
                    monthsVars >>

HasMonths(r) == r.next_review_months # NA

ValidMonths(frame) ==
    { frame[i].next_review_months.n : i \in { j \in 1..Len(frame) : HasMonths(frame[j]) } }

SetMin(S) == CHOOSE x \in S : \A y \in S : x <= y
SetMax(S) == CHOOSE x \in S : \A y \in S : x >= y

InRange(r, lo, hi) ==
    HasMonths(r) /\ r.next_review_months.n >= lo /\ r.next_review_months.n <= hi

\* line 264: the slider and the filter exist only when some row has months
FilterApplies(frame) == ValidMonths(frame) # {}

\* lines 263-271: the slider over [min, max] of the known months, and the
\* filter on the range selected.  Line 269 evaluates astype(int) on the
\* whole column: with pd.NA among the months it raises TypeError.  With
\* min = max, st.slider either returns (min, max) or raises, by version.
MonthsFilter ==
    /\ pc = "filter"
    /\ IF ~FilterApplies(df)
       THEN /\ pc' = "enrich"
            /\ UNCHANGED << slider, df, messages >>
       ELSE LET lo0 == SetMin(ValidMonths(df))
                hi0 == SetMax(ValidMonths(df))
            IN  \/ /\ lo0 = hi0
                   /\ pc' = "crashed"
                   /\ messages' = Append(messages, "traceback:266")
                   /\ UNCHANGED << slider, df >>
                \/ \E lo, hi \in lo0 .. hi0 :
                     /\ lo <= hi
                     /\ slider' = [k |-> "range", lo |-> lo, hi |-> hi]
                     /\ IF \E i \in 1..Len(df) : ~HasMonths(df[i])
                        THEN /\ pc' = "crashed"
                             /\ messages' = Append(messages, "traceback:269")
                             /\ UNCHANGED df
                        ELSE /\ pc' = "enrich"
                             /\ df' = SelectSeq(df,
                                         LAMBDA r : InRange(r, lo, hi))
                             /\ UNCHANGED messages
    /\ UNCHANGED << github_token, listing, items, idx, fetched, rows,
                    contains_first, debug, views, sample_debug, today, table,
                    fileRequests, credVars, cacheVars, calls, monthsVars >>

\* ---- enrichment, lines 276-335

\* the answers the endpoint gives during a run: for one identifier, the
\* requests all fail or all carry the same count
RunAnswers == {Fail, Value(3)}
RunOracles == { [f \in Filters |-> a] : a \in RunAnswers }

\* line 276
EnrichmentConfigured == plausible_api_key /\ plausible_site_id

WithViews(r, v30, v12) ==
    [i |-> r.i, measure_id |-> r.measure_id, next_review |-> r.next_review,
     next_review_months |-> r.next_review_months,
     views_30d |-> v30, views_12m |-> v12]

UnenrichedRowZero(r) == WithViews(r, [k |-> "int", n |-> 0], [k |-> "int", n |-> 0])

\* lines 334-335: both views columns are set to None
UnenrichedRow(r) == WithViews(r, None, None)

\* lines 332-335
EnrichNoCredentials ==
    /\ pc = "enrich"
    /\ ~EnrichmentConfigured
    /\ messages' = Append(messages, "info:nocreds")
    /\ df' = [i \in 1..Len(df) |-> UnenrichedRow(df[i])]
    /\ pc' = "render"
    /\ UNCHANGED << github_token, listing, items, idx, fetched, rows,
                    contains_first, debug, views, sample_debug, today,
                    slider, table, fileRequests, credVars, cacheVars, calls,
                    monthsVars >>

\* lines 276-281; the two checkboxes (lines 182-184) are first used in this
\* branch, and their values are drawn here
EnrichBegin ==
    /\ pc = "enrich"
    /\ EnrichmentConfigured
    /\ contains_first' \in BOOLEAN
    /\ debug' \in BOOLEAN
    /\ views' = << >>
    /\ sample_debug' = FALSE
    /\ pc' = "enrich_loop"
    /\ UNCHANGED << github_token, listing, items, idx, fetched, rows, df,
                    today, slider, table, messages, fileRequests, credVars,
                    cacheVars, calls, monthsVars >>

\* one lookup made by the enrichment loop, on the caches c leaves behind;
\* nothing is called once an earlier call has raised
ThenLookup(c, wanted, t, mid, period, site_id, api_key, answers) ==
    IF c.raised \/ ~wanted THEN c
    ELSE LET r == plausible_pageviews_contains(c.pvc, c.qc, t, mid, period,
                                               site_id, api_key, answers)
         IN  [raised |-> r.val = Raised,
              v30 |-> IF period = "30d" THEN r.val ELSE c.v30,
              v12 |-> IF period = "12mo" THEN r.val ELSE c.v12,
              pvc |-> r.pvc, qc |-> r.qc, issued |-> c.issued + r.issued]

\* one exact-path plausible_query (lines 299-302) and the value lines
\* 303-312 take from it
ThenExact(c, t, mid, period, site_id, api_key, answers) ==
    LET e == plausible_query(c.qc, t, site_id, api_key,
                 MkParams(mid, period, "exact"), answers["exact"])
    IN  [raised |-> c.raised,
         v30 |-> IF period = "30d" THEN Decide(e.val) ELSE c.v30,
         v12 |-> IF period = "12mo" THEN Decide(e.val) ELSE c.v12,
         pvc |-> c.pvc, qc |-> e.qc, issued |-> c.issued + e.issued]

\* lines 303-312: a malformed payload raises; a payload without a value
\* leaves the view None
ExactValues(c) ==
    [raised |-> c.v30 = Raised \/ c.v12 = Raised,
     v30 |-> IF c.v30.k = "int" THEN c.v30 ELSE None,
     v12 |-> IF c.v12.k = "int" THEN c.v12 ELSE None,
     pvc |-> c.pvc, qc |-> c.qc, issued |-> c.issued]

Caches(pvc, qc) ==
    [raised |-> FALSE, v30 |-> None, v12 |-> None, pvc |-> pvc, qc |-> qc,
     issued |-> 0]

\* lines 292-293
ContainsFirst(pvc, qc, t, mid, site_id, api_key, o30, o12) ==
    ThenLookup(
        ThenLookup(Caches(pvc, qc), TRUE, t, mid, "30d", site_id, api_key, o30),
        TRUE, t, mid, "12mo", site_id, api_key, o12)

\* lines 315-318: plausible_pageviews_contains for a period still None
Fallbacks(c, t, mid, site_id, api_key, o30, o12) ==
    ThenLookup(
        ThenLookup(c, c.v30 = None, t, mid, "30d", site_id, api_key, o30),
        c.v12 = None, t, mid, "12mo", site_id, api_key, o12)

\* lines 296-318: the exact path through plausible_query for both periods,
\* then the fallbacks
ExactFirst(pvc, qc, t, mid, site_id, api_key, o30, o12) ==
    Fallbacks(
        ExactValues(
            ThenExact(
                ThenExact(Caches(pvc, qc), t, mid, "30d", site_id, api_key,
                          o30),
                t, mid, "12mo", site_id, api_key, o12)),
        t, mid, site_id, api_key, o30, o12)

\* lines 283-324: one iteration of the loop over the rows of df
EnrichRow ==
    /\ pc = "enrich_loop"
    /\ Len(views) < Len(df)
    /\ LET mid == df[Len(views) + 1].measure_id
       IN  IF mid = NoId
           THEN /\ views' = Append(views, << None, None >>)
                /\ UNCHANGED << pc, messages, sample_debug, cacheVars >>
           ELSE \E o \in RunOracles :
                LET r == IF contains_first
                         THEN ContainsFirst(pvcache, qcache, now, mid,
                                  plausible_site_id, plausible_api_key, o, o)
                         ELSE ExactFirst(pvcache, qcache, now, mid,
                                  plausible_site_id, plausible_api_key, o, o)
                    dbg == debug /\ ~sample_debug /\ ~r.raised
                IN  /\ pvcache' = r.pvc
                    /\ qcache' = r.qc
                    /\ requests' = requests + r.issued + (IF dbg THEN 1 ELSE 0)
                    /\ sample_debug' = (sample_debug \/ dbg)
                    /\ UNCHANGED now
                    /\ IF r.raised
                       THEN /\ pc' = "crashed"
                            /\ messages' = Append(messages, "traceback:292")
                            /\ UNCHANGED views
                       ELSE /\ views' = Append(views, << r.v30, r.v12 >>)
                            /\ UNCHANGED << pc, messages >>
    /\ UNCHANGED << github_token, listing, items, idx, fetched, rows, df,
                    contains_first, debug, today, slider, table,
                    fileRequests, credVars, calls, monthsVars >>

\* lines 326-331: the two lists become the views columns
AttachViews ==
    /\ pc = "enrich_loop"
    /\ Len(views) = Len(df)
    /\ df' = [i \in 1..Len(df) |-> WithViews(df[i], views[i][1], views[i][2])]
    /\ pc' = "render"
    /\ UNCHANGED << github_token, listing, items, idx, fetched, rows,
                    contains_first, debug, views, sample_debug, today,
                    slider, table, messages, fileRequests, credVars,
                    cacheVars, calls, monthsVars >>

\* lines 360-367: the text of the next_review cell
NextReviewText(nr) ==
    IF nr.k = "date" THEN [k |-> "date", y |-> nr.y, m |-> nr.m, d |-> nr.d]
    ELSE IF nr.k = "none" THEN [k |-> "blank"]
    ELSE IF nr.v.t = "list" THEN [k |-> "blank"]
    ELSE [k |-> "str", of |-> nr.v]

\* lines 358-389: one table row per row of df, in the order of df
RenderRow(r) ==
    [i |-> r.i, measure_id |-> r.measure_id,
     next_review |-> NextReviewText(r.next_review),
     next_review_months |-> r.next_review_months,
     views_30d |-> r.views_30d, views_12m |-> r.views_12m]

\* lines 340-399.  On a next_review cell holding an empty list, line 363
\* takes the truth value of an empty array: False, or ValueError, by version.
Render ==
    /\ pc = "render"
    /\ \/ /\ table' = [i \in 1..Len(df) |-> RenderRow(df[i])]
          /\ pc' = "done"
          /\ UNCHANGED messages
       \/ /\ \E i \in 1..Len(df) :
                df[i].next_review.k = "raw" /\ df[i].next_review.v.t = "list"
          /\ pc' = "crashed"
          /\ messages' = Append(messages, "traceback:363")
          /\ UNCHANGED table
    /\ UNCHANGED << github_token, listing, items, idx, fetched, rows, df,
                    contains_first, debug, views, sample_debug, today,
                    slider, fileRequests, credVars, cacheVars, calls,
                    monthsVars >>

Next ==
    \/ GetGithubToken
    \/ FetchListing
    \/ LoopStep
    \/ LoopNotIterable
    \/ Midnight
    \/ BuildFrame
    \/ MonthsFilter
    \/ EnrichNoCredentials
    \/ EnrichBegin
    \/ EnrichRow
    \/ AttachViews
    \/ Render

Spec == InitRun /\ [][Next]_vars

-----------------------------------------------------------------------------
(* The claims about the run *)

Tracebacks == { "traceback:208", "traceback:210", "traceback:226",
                "traceback:266", "traceback:269", "traceback:292",
                "traceback:363" }

Shown(msgs) == \E i \in 1..Len(messages) : messages[i] \in msgs

RunOver == pc \in {"done", "stopped", "crashed"}

\* the listing request failed, or its body is not a list of JSON objects
ListingFailed ==
    \/ listing.k \in ListingFailures
    \/ listing.k \in {"object", "scalar"}
    \/ listing.k = "list" /\ \E i \in 1..Len(items) : items[i] = "scalar"

\* C1: when the listing fetch fails (exception, timeout, non-success status,
\* unparseable body, unexpected shape) the run ends in an error state with an
\* error message and no table; no per-file fetch and no analytics lookup is
\* issued and no record is emitted; and no other failure stops a run so.
C1_ListingFailureAborts ==
    /\ ListingFailed =>
         /\ fileRequests = 0
         /\ requests = 0
         /\ rows = << >>
         /\ table = NoTable
    /\ (ListingFailed /\ RunOver) =>
         /\ pc \in {"stopped", "crashed"}
         /\ Shown({"error:github"} \cup Tracebacks)
    /\ (github_token /\ pc \in {"stopped", "crashed"}
          /\ Shown({"error:github"} \cup Tracebacks)) => ListingFailed

RowIds(frame) == [j \in 1..Len(frame) |-> frame[j].i]

\* entry n has a .json name and its request succeeded with a JSON object
GoodEntry(n) ==
    /\ IsJsonName(items[n])
    /\ fetched[n].k = "response"
    /\ fetched[n].status = "ok"
    /\ fetched[n].body = "object"

RECURSIVE GoodIds(_)
GoodIds(n) ==
    IF n = 0 THEN << >>
    ELSE IF GoodEntry(n) THEN Append(GoodIds(n - 1), n)
    ELSE GoodIds(n - 1)

\* C2: a per-file failure never aborts the run; the rows collected are
\* exactly, in listing order, the entries with a .json name whose request
\* succeeded with a parseable JSON object; a timeout, a non-success status
\* or an unparseable body contributes no row, and the later entries are
\* still processed.
C2_PerFileFailuresSkipped ==
    (listing.k = "list" /\ ~ListingFailed) =>
        /\ ~Shown({"traceback:226"})
        /\ RowIds(rows) = GoodIds(idx)
        /\ pc \notin {"start", "fetch", "loop", "crashed"} => idx = Len(items)

Dated(r) == r.next_review.k = "date"

\* C3: the table is in ascending order of next_review date, undated rows
\* last.
C3_SortedByReviewDate ==
    pc = "done" =>
        \A a, b \in 1..Len(table) :
            a < b =>
                \/ ~Dated(table[b])
                \/ /\ Dated(table[a])
                   /\ Dated(table[b])
                   /\ DateLE(table[a].next_review, table[b].next_review)

AfterFilter == {"enrich", "enrich_loop", "render", "done"}

\* C4: after the months filter the collection is exactly the rows built
\* whose months are known and within the selected range, in their order; no
\* row with unknown months is left, not even when every row has unknown
\* months; and the filter yields a collection (it does not raise).
C4_MonthsFilterExact ==
    /\ ~Shown({"traceback:269"})
    /\ pc \in AfterFilter =>
         /\ \A i \in 1..Len(df) : HasMonths(df[i])
         /\ slider # NoRange =>
              RowIds(df) =
                  RowIds(SelectSeq(rows, LAMBDA r :
                      /\ r.next_review_months # NA
                      /\ r.next_review_months.n >= slider.lo
                      /\ r.next_review_months.n <= slider.hi))

\* C6: whatever the next_review field holds, the row is kept and its
\* next_review is the date the field denotes or absent, never the raw
\* value; where it is absent the months are unknown.
C6_NextReviewNormalized ==
    /\ \A j \in 1..Len(rows) :
         /\ rows[j].next_review.k \in {"date", "none"}
         /\ rows[j].next_review = fetched[rows[j].i].denotes
         /\ rows[j].next_review = NoDate => rows[j].next_review_months = NA
    /\ \A n \in 1..idx :
         (fetched[n].k = "response" /\ fetched[n].body = "object")
             => \E j \in 1..Len(rows) : rows[j].i = n

RunIds == { MkId(i) : i \in 1..MaxItems } \cup {NoId}

\* C9: without the API key or without the site id no request is sent to the
\* analytics endpoint during the run, every lookup returns absent, and every
\* row emitted has both views absent; a row without identifier is kept, is
\* looked up nowhere and has both views absent.
C9_NoCredentialsNoRequests ==
    /\ ~(plausible_api_key /\ plausible_site_id) =>
         /\ requests = 0
         /\ qcache = {}
         /\ pc \in {"render", "done"} =>
              \A i \in 1..Len(df) :
                  df[i].views_30d = None /\ df[i].views_12m = None
         /\ pc = "done" =>
              \A i \in 1..Len(table) :
                  table[i].views_30d = None /\ table[i].views_12m = None
         /\ \A mid \in RunIds, period \in Periods, o \in RunOracles :
              LET r == plausible_pageviews_contains(pvcache, qcache, now,
                           mid, period, plausible_site_id,
                           plausible_api_key, o)
              IN  r.val = None /\ r.issued = 0
    /\ pc \in {"render", "done"} =>
         /\ \A i \in 1..Len(df) :
              df[i].measure_id = NoId =>
                  df[i].views_30d = None /\ df[i].views_12m = None
         /\ (\A i \in 1..Len(df) : df[i].measure_id = NoId) => requests = 0
    /\ \A n \in 1..idx :
         (items[n] = "noid" /\ fetched[n].k = "response"
            /\ fetched[n].body = "object")
             => \E j \in 1..Len(rows) :
                    rows[j].i = n /\ rows[j].measure_id = NoId

\* C9 witness: a table rendered without the site id, holding a row with an
\* identifier and a row without
C9_Witness ==
    /\ pc = "done"
    /\ plausible_api_key
    /\ ~plausible_site_id
    /\ \E a, b \in 1..Len(table) :
         /\ table[a].measure_id = NoId
         /\ table[b].measure_id # NoId
         /\ table[b].views_30d = None

\* C10: two rows of one run with the same next_review date have the same
\* months, whatever the clock does during the run.
C10_OneNowPerRun ==
    \A a, b \in 1..Len(rows) :
        (Dated(rows[a]) /\ rows[a].next_review = rows[b].next_review)
            => rows[a].next_review_months = rows[b].next_review_months

====
